---------------------------- MODULE Spec2Model ----------------------------
(***************************************************************************)
(* Model of the Discus Manager (src/app.py), a Streamlit script.           *)
(*                                                                         *)
(* One user interaction (a button click, a changed text box, a changed     *)
(* select box) makes Streamlit run the script once from top to bottom;     *)
(* st.rerun() restarts it.  An action of this model is one interaction:    *)
(* the run it starts, and the restarted run when the handler ends in       *)
(* st.rerun().  st.session_state (discus_data, finalists_generated) is the *)
(* program's state; what the run rendered (the selected category, the      *)
(* Phase 2 rows with their ranks, the message of the Load button) is kept  *)
(* in variables of its own, because it stays on the screen until the next  *)
(* interaction.                                                            *)
(*                                                                         *)
(* A throw text is a sequence of one-character strings, so that float()    *)
(* can be modelled by what it does to the characters.  A float is a record *)
(* [kind, v]: kind "num" with v the value scaled by 10^MaxLen, or kind     *)
(* "nan".                                                                  *)
(***************************************************************************)
EXTENDS Integers, Sequences, FiniteSets, TLC

VARIABLES
    discus_data,          \* st.session_state.discus_data: a sequence of athlete records
    finalists_generated,  \* st.session_state.finalists_generated: the keys mapped to True
    selected_cat,         \* the category the last run rendered ("" when the roster is empty)
    is_final_active,      \* is_final_active of the last run
    final_order,          \* Phase 2 rows of the last run: roster indices, in display order
    ranks,                \* current_rank displayed on each Phase 2 row
    notice,               \* the st.error / st.success message of the Load Data handler
    pc,                   \* "app", or the position of the pure-function harness
    val,                  \* the argument handed to parse_throw
    athlete,              \* the record handed to get_best_throw
    ret                   \* what the call returned

vars == <<discus_data, finalists_generated, selected_cat, is_final_active,
          final_order, ranks, notice, pc, val, athlete, ret>>

appVars == <<discus_data, finalists_generated, selected_cat, is_final_active,
             final_order, ranks, notice>>

fnVars == <<val, athlete, ret>>

---------------------------------------------------------------------------
(* Bounds of the model *)

\* longest throw text drawn for parse_throw
MaxLen == 3
\* a user fills an empty throw box or types over a loaded name only while fewer
\* than this many fields of the roster hold an edited value
MaxDirty == 2
\* Add is offered while the roster holds fewer records than this
MaxRoster == 2

---------------------------------------------------------------------------
(* Texts *)

\* the characters the throw texts are drawn from
Alphabet == {"0", "5", ".", "-", " ", "n", "a"}

Digits == {"0", "5"}

DigitVal == [c \in Digits |-> IF c = "0" THEN 0 ELSE 5]

\* Python's None, for a value that is absent (no text holds a two-letter character)
None == <<"None">>

RECURSIVE TextsOfLen(_)
TextsOfLen(n) ==
    IF n = 0 THEN {<<>>}
    ELSE {Append(t, c) : t \in TextsOfLen(n - 1), c \in Alphabet}

RECURSIVE TextsUpTo(_)
TextsUpTo(n) == IF n = 0 THEN TextsOfLen(0) ELSE TextsOfLen(n) \cup TextsUpTo(n - 1)

RECURSIVE Pow10(_)
Pow10(n) == IF n = 0 THEN 1 ELSE 10 * Pow10(n - 1)

\* the fixed-point scale of a "num" float: every text has at most MaxLen digits
Scale == Pow10(MaxLen)

Num(n) == [kind |-> "num", v |-> n]

NaN == [kind |-> "nan", v |-> 0]

ValueError == [kind |-> "ValueError", v |-> 0]

RECURSIVE lstrip(_)
lstrip(s) == IF s # <<>> /\ Head(s) = " " THEN lstrip(Tail(s)) ELSE s

RECURSIVE rstrip(_)
rstrip(s) ==
    IF s # <<>> /\ s[Len(s)] = " " THEN rstrip(SubSeq(s, 1, Len(s) - 1)) ELSE s

strip(s) == rstrip(lstrip(s))

RECURSIVE IntVal(_)
IntVal(ds) ==
    IF ds = <<>> THEN 0
    ELSE 10 * IntVal(SubSeq(ds, 1, Len(ds) - 1)) + DigitVal[ds[Len(ds)]]

\* position of the first "." of s, or Len(s) + 1
DotPos(s) ==
    IF \E k \in 1..Len(s) : s[k] = "."
    THEN CHOOSE k \in 1..Len(s) : s[k] = "." /\ \A j \in 1..(k - 1) : s[j] # "."
    ELSE Len(s) + 1

IntPart(s) == SubSeq(s, 1, DotPos(s) - 1)

FracPart(s) == SubSeq(s, DotPos(s) + 1, Len(s))

\* number ::= [digitpart] "." digitpart | digitpart ["."]
IsNumber(s) ==
    LET d == DotPos(s)
    IN  /\ \A k \in 1..Len(s) : k # d => s[k] \in Digits
        /\ Len(s) >= 1
        /\ s # <<".">>

NumberVal(s) ==
    LET frac == FracPart(s)
    IN  IntVal(IntPart(s)) * Scale + IntVal(frac) * Pow10(MaxLen - Len(frac))

Signed(s) == s # <<>> /\ Head(s) = "-"

Unsigned(s) == IF Signed(s) THEN Tail(s) ELSE s

(* float(val) on a text: surrounding whitespace is stripped, then
   [sign] (number | "nan"); any other text raises ValueError.  (Exponents,
   "+", "_", "inf" and upper case need characters outside Alphabet.) *)
float(s) ==
    LET text == strip(s)
        body == Unsigned(text)
    IN  IF body = <<"n", "a", "n">> THEN NaN
        ELSE IF IsNumber(body)
        THEN Num(IF Signed(text) THEN 0 - NumberVal(body) ELSE NumberVal(body))
        ELSE ValueError

Zero == Num(0)

\* a > b on floats: every comparison with nan is False
Gt(a, b) == a.kind = "num" /\ b.kind = "num" /\ a.v > b.v

\* parse_throw with the ValueError left uncaught
parse_throw_uncaught(v) ==
    IF v = None \/ v = <<>> \/ v = <<"-">> THEN Zero ELSE float(v)

parse_throw(v) ==
    IF v = None \/ v = <<>> \/ v = <<"-">> THEN Zero
    ELSE LET r == float(v)
         IN  IF r.kind = "ValueError" THEN Zero ELSE r

Slots == <<"t1", "t2", "t3", "t4", "t5">>

\* max(seq): the first item, replaced by each later item that is greater
RECURSIVE PyMax(_)
PyMax(xs) ==
    IF Len(xs) = 1 THEN xs[1]
    ELSE LET m == PyMax(SubSeq(xs, 1, Len(xs) - 1))
         IN  IF Gt(xs[Len(xs)], m) THEN xs[Len(xs)] ELSE m

get_best_throw(a) ==
    LET valid_throws == <<parse_throw(a.t1), parse_throw(a.t2), parse_throw(a.t3),
                          parse_throw(a.t4), parse_throw(a.t5)>>
    IN  IF Len(valid_throws) > 0 THEN PyMax(valid_throws) ELSE Zero

---------------------------------------------------------------------------
(* The pure functions, called on bounded inputs *)

\* texts of one athlete's slots in the harness
SlotTexts == {<<>>, <<"-">>, <<"5">>, <<"-", "5">>, <<"n", "a", "n">>, <<"a">>}

NoAthlete == [s \in {Slots[k] : k \in 1..Len(Slots)} |-> <<>>]

FnInit ==
    /\ discus_data = <<>>
    /\ finalists_generated = {}
    /\ selected_cat = ""
    /\ is_final_active = FALSE
    /\ final_order = <<>>
    /\ ranks = <<>>
    /\ notice = ""
    /\ pc = "call"
    /\ ret = Zero
    /\ \/ val \in TextsUpTo(MaxLen) \cup {None} /\ athlete = NoAthlete
       \/ val = <<>> /\ athlete \in [{Slots[k] : k \in 1..Len(Slots)} -> SlotTexts]

CallParse ==
    /\ pc = "call"
    /\ pc' = "parsed"
    /\ ret' = parse_throw(val)
    /\ UNCHANGED <<appVars, val, athlete>>

CallBest ==
    /\ pc = "call"
    /\ pc' = "best"
    /\ ret' = get_best_throw(athlete)
    /\ UNCHANGED <<appVars, val, athlete>>

FnNext == CallParse \/ CallBest

SpecFn == FnInit /\ [][FnNext]_vars

---------------------------------------------------------------------------
(* The roster *)

\* top_5 = sorted_athletes[:5]
CutSize == 5

NewRecord(cat, house, name) ==
    [id |-> name \o "_" \o house, Category |-> cat, House |-> house, Name |-> name,
     t1 |-> <<>>, t2 |-> <<>>, t3 |-> <<>>, t4 |-> <<>>, t5 |-> <<>>]

Min(a, b) == IF a < b THEN a ELSE b

Reverse(s) == [k \in 1..Len(s) |-> s[Len(s) + 1 - k]]

Range(s) == {s[k] : k \in 1..Len(s)}

\* the category labels of the model, in the order sorted() gives strings
CatOrder == <<"Girls", "Other">>

\* categories = sorted(list(set(d['Category'] for d in discus_data)))
categories(dd) ==
    LET Present(c) == \E i \in 1..Len(dd) : dd[i].Category = c
    IN  SelectSeq(CatOrder, Present)

\* cat_data, as the roster indices of its records, in roster order
cat_data(dd, cat) ==
    LET Member(i) == dd[i].Category = cat
    IN  SelectSeq([i \in 1..Len(dd) |-> i], Member)

\* the sort keys: the key function is called once for each record
RECURSIVE best_keys(_)
best_keys(dd) ==
    IF dd = <<>> THEN <<>>
    ELSE Append(best_keys(SubSeq(dd, 1, Len(dd) - 1)), get_best_throw(dd[Len(dd)]))

\* where a stable descending sort puts x among the already sorted s
InsertPos(s, x, key) ==
    IF \E k \in 1..Len(s) : Gt(key[x], key[s[k]])
    THEN CHOOSE k \in 1..Len(s) :
            /\ Gt(key[x], key[s[k]])
            /\ \A j \in 1..(k - 1) : ~Gt(key[x], key[s[j]])
    ELSE Len(s) + 1

\* sorted(cat_data, key=lambda x: get_best_throw(x), reverse=True): stable
RECURSIVE sorted_desc(_, _)
sorted_desc(idx, key) ==
    IF idx = <<>> THEN <<>>
    ELSE LET s == sorted_desc(SubSeq(idx, 1, Len(idx) - 1), key)
             x == idx[Len(idx)]
             p == InsertPos(s, x, key)
         IN  SubSeq(s, 1, p - 1) \o <<x>> \o SubSeq(s, p, Len(s))

sorted_athletes(dd, cat) == sorted_desc(cat_data(dd, cat), best_keys(dd))

top_5(sorted) == SubSeq(sorted, 1, Min(CutSize, Len(sorted)))

\* sorted_athletes.index(athlete) + 1: the first entry EQUAL to the record
current_rank(sorted, j, dd) ==
    CHOOSE p \in 1..Len(sorted) :
        /\ dd[sorted[p]] = dd[j]
        /\ \A q \in 1..(p - 1) : dd[sorted[q]] # dd[j]

\* what the user did to a text box: nothing, or typed v into field f of record i
NoEvent == [i |-> 0, f |-> "", v |-> <<>>]

Phase1Fields == {"Name", "t1", "t2"}

Phase2Fields == {"t3", "t4", "t5"}

\* the Phase 1 loop deriving the identifier again from the typed name
Phase1_rekeys(dd, cat, ev) ==
    IF ev.i # 0 /\ ev.f \in Phase1Fields /\ dd[ev.i].Category = cat
    THEN IF ev.f = "Name"
         THEN [dd EXCEPT ![ev.i].Name = ev.v, ![ev.i].id = ev.v \o "_" \o dd[ev.i].House]
         ELSE [dd EXCEPT ![ev.i][ev.f] = ev.v]
    ELSE dd

\* the Phase 1 loop: each text box of the selected category writes its value back
Phase1(dd, cat, ev) ==
    IF ev.i # 0 /\ ev.f \in Phase1Fields /\ dd[ev.i].Category = cat
    THEN [dd EXCEPT ![ev.i][ev.f] = ev.v]
    ELSE dd

\* the Phase 2 loop from row k on: the rank is read first, then t3..t5 are written back
RECURSIVE Phase2(_, _, _, _, _, _)
Phase2(fo, sorted, ev, k, dd, rk) ==
    IF k > Len(fo) THEN [dd |-> dd, ranks |-> rk]
    ELSE LET j == fo[k]
             r == current_rank(sorted, j, dd)
             d2 == IF ev.i = j /\ ev.f \in Phase2Fields
                   THEN [dd EXCEPT ![j][ev.f] = ev.v]
                   ELSE dd
         IN  Phase2(fo, sorted, ev, k + 1, d2, Append(rk, r))

\* the select box: the user's choice, kept while the options stay the same
Selection(dd, old_dd, old_sel) ==
    IF categories(dd) = categories(old_dd) /\ old_sel \in Range(categories(dd))
    THEN old_sel
    ELSE categories(dd)[1]

\* the main section rendering Phase 2 without looking at the flag
MainRun_unlocked(dd, fg, sel, ev) ==
    IF dd = <<>>
    THEN [dd |-> dd, sel |-> "", active |-> FALSE, fo |-> <<>>, ranks |-> <<>>]
    ELSE LET d1 == Phase1(dd, sel, ev)
             sorted == sorted_athletes(d1, sel)
             fo == Reverse(top_5(sorted))
             p2 == Phase2(fo, sorted, ev, 1, d1, <<>>)
         IN  [dd |-> p2.dd, sel |-> sel, active |-> TRUE, fo |-> fo, ranks |-> p2.ranks]

\* one run of the main section (lines 97-185) on roster dd with flags fg
MainRun(dd, fg, sel, ev) ==
    IF dd = <<>>
    THEN [dd |-> dd, sel |-> "", active |-> FALSE, fo |-> <<>>, ranks |-> <<>>]
    ELSE LET d1 == Phase1(dd, sel, ev)
             active == sel \in fg
             sorted == sorted_athletes(d1, sel)
             fo == Reverse(top_5(sorted))
             p2 == Phase2(fo, sorted, ev, 1, d1, <<>>)
         IN  IF active
             THEN [dd |-> p2.dd, sel |-> sel, active |-> TRUE, fo |-> fo, ranks |-> p2.ranks]
             ELSE [dd |-> d1, sel |-> sel, active |-> FALSE, fo |-> <<>>, ranks |-> <<>>]

\* the run's effect on the variables of the application
Render(r, fg, msg) ==
    /\ notice' = msg
    /\ finalists_generated' = fg
    /\ discus_data' = r.dd
    /\ selected_cat' = r.sel
    /\ is_final_active' = r.active
    /\ final_order' = r.fo
    /\ ranks' = r.ranks
    /\ UNCHANGED <<pc, val, athlete, ret>>

---------------------------------------------------------------------------
(* The uploaded CSV *)

required == <<"Category", "House", "Name">>

\* df.columns = [c.strip() for c in df.columns]; a header is a sequence of pieces
Normalize(cols) == [k \in 1..Len(cols) |-> strip(cols[k])]

HasRequired(tbl) ==
    \A r \in 1..Len(required) : <<required[r]>> \in Range(Normalize(tbl.columns))

Cell(tbl, row, col) ==
    row[CHOOSE k \in 1..Len(tbl.columns) : Normalize(tbl.columns)[k] = <<col>>]

LoadRecords(tbl) ==
    [k \in 1..Len(tbl.rows) |->
        NewRecord(Cell(tbl, tbl.rows[k], "Category"),
                  Cell(tbl, tbl.rows[k], "House"),
                  Cell(tbl, tbl.rows[k], "Name"))]

\* the handler emptying the roster before it looks at the columns
LoadHandler_clears_first(tbl, dd, fg) ==
    IF ~tbl.readable THEN [dd |-> dd, fg |-> fg, msg |-> "Error"]
    ELSE IF ~HasRequired(tbl) THEN [dd |-> <<>>, fg |-> fg, msg |-> "CSV needs columns"]
    ELSE [dd |-> LoadRecords(tbl), fg |-> {}, msg |-> "Loaded!"]

\* the Load Data handler (lines 51-75): the session state and the message it leaves
LoadHandler(tbl, dd, fg) ==
    IF ~tbl.readable THEN [dd |-> dd, fg |-> fg, msg |-> "Error"]
    ELSE IF ~HasRequired(tbl) THEN [dd |-> dd, fg |-> fg, msg |-> "CSV needs columns"]
    ELSE [dd |-> LoadRecords(tbl), fg |-> {}, msg |-> "Loaded!"]

---------------------------------------------------------------------------
(* The results table (lines 190-225) *)

RECURSIVE Perms(_)
Perms(S) ==
    IF S = {} THEN {<<>>}
    ELSE UNION {{<<x>> \o p : p \in Perms(S \ {x})} : x \in S}

\* df_res.sort_values(by="Best Throw", ascending=False): the default kind is
\* quicksort, which promises no order among equal keys; every descending order
\* of the rows is an outcome
df_res_orders(dd, cat) ==
    LET key == best_keys(dd)
    IN  {p \in Perms(Range(cat_data(dd, cat))) :
            \A k \in 1..(Len(p) - 1) : ~Gt(key[p[k + 1]], key[p[k]])}

ExportColumns ==
    <<<<"Rank">>, <<"Name">>, <<"House">>, <<"Best Throw">>,
      <<"T1">>, <<"T2">>, <<"T3">>, <<"T4">>, <<"T5">>>>

\* df_res.to_csv(): the index (Rank) and the columns of results_list
to_csv(dd, order) ==
    [readable |-> TRUE,
     columns |-> ExportColumns,
     rows |-> [k \in 1..Len(order) |->
                 <<k, dd[order[k]].Name, dd[order[k]].House, get_best_throw(dd[order[k]]),
                   dd[order[k]].t1, dd[order[k]].t2, dd[order[k]].t3,
                   dd[order[k]].t4, dd[order[k]].t5>>]]

\* the files Download CSV Results can hand out in the current state
Downloads ==
    IF discus_data = <<>> THEN {}
    ELSE {to_csv(discus_data, o) : o \in df_res_orders(discus_data, selected_cat)}

\* one of them, saved by the user
Downloaded ==
    IF discus_data = <<>> THEN {}
    ELSE {to_csv(discus_data, sorted_athletes(discus_data, selected_cat))}

---------------------------------------------------------------------------
(* The interactions *)

\* the name a user types over a display name
EditNames == {"Bea"}

\* the number of roster fields that hold an edited value
DirtyCount(dd) ==
    Cardinality({<<i, k>> \in (1..Len(dd)) \X (1..Len(Slots)) : dd[i][Slots[k]] # <<>>})
    + Cardinality({i \in 1..Len(dd) : dd[i].Name \in EditNames})

Init ==
    /\ discus_data = <<>>
    /\ finalists_generated = {}
    /\ selected_cat = ""
    /\ is_final_active = FALSE
    /\ final_order = <<>>
    /\ ranks = <<>>
    /\ notice = ""
    /\ pc = "app"
    /\ val = <<>>
    /\ athlete = NoAthlete
    /\ ret = Zero

\* "Load Data" on the uploaded file tbl, then the main section
LoadData(tbl) ==
    /\ pc = "app"
    /\ LET h == LoadHandler(tbl, discus_data, finalists_generated)
           sel == IF h.dd = <<>> THEN ""
                  ELSE Selection(h.dd, discus_data, selected_cat)
       IN  Render(MainRun(h.dd, h.fg, sel, NoEvent), h.fg, h.msg)

\* Add resetting the flags as Load Data does
Add_resets(cat, house, name) ==
    /\ pc = "app"
    /\ Len(discus_data) < MaxRoster
    /\ LET dd == Append(discus_data, NewRecord(cat, house, name))
       IN  Render(MainRun(dd, {}, Selection(dd, discus_data, selected_cat), NoEvent), {}, "")

\* "Add" (lines 83-92): the record is appended and st.rerun() restarts the script
Add(cat, house, name) ==
    /\ pc = "app"
    /\ Len(discus_data) < MaxRoster
    /\ LET dd == Append(discus_data, NewRecord(cat, house, name))
       IN  Render(MainRun(dd, finalists_generated,
                          Selection(dd, discus_data, selected_cat), NoEvent),
                  finalists_generated, "")

\* another category is picked in the select box
Select(c) ==
    /\ pc = "app"
    /\ c \in Range(categories(discus_data))
    /\ c # selected_cat
    /\ Render(MainRun(discus_data, finalists_generated, c, NoEvent),
              finalists_generated, "")

\* "Generate Final Round (Top 5)" (lines 151-153): the flag is set and st.rerun()
\* restarts the script
Generate ==
    /\ pc = "app"
    /\ discus_data # <<>>
    /\ LET fg == finalists_generated \cup {selected_cat}
       IN  Render(MainRun(discus_data, fg, selected_cat, NoEvent), fg, "")

\* a display name of the selected category is typed over
EditName(i, n) ==
    /\ pc = "app"
    /\ i \in 1..Len(discus_data)
    /\ discus_data[i].Category = selected_cat
    /\ n # discus_data[i].Name
    /\ DirtyCount(discus_data) < MaxDirty
    /\ Render(MainRun(discus_data, finalists_generated, selected_cat,
                      [i |-> i, f |-> "Name", v |-> n]),
              finalists_generated, "")

\* text v is typed into a throw box that is on the screen
EditThrow(i, f, v) ==
    /\ pc = "app"
    /\ i \in 1..Len(discus_data)
    /\ IF f \in Phase2Fields
       THEN is_final_active /\ i \in Range(final_order)
       ELSE discus_data[i].Category = selected_cat
    /\ v # discus_data[i][f]
    /\ discus_data[i][f] = <<>> => DirtyCount(discus_data) < MaxDirty
    /\ Render(MainRun(discus_data, finalists_generated, selected_cat,
                      [i |-> i, f |-> f, v |-> v]),
              finalists_generated, "")

\* "Download CSV Results": the click only runs the script again
Download ==
    /\ pc = "app"
    /\ discus_data # <<>>
    /\ Render(MainRun(discus_data, finalists_generated, selected_cat, NoEvent),
              finalists_generated, "")

---------------------------------------------------------------------------
(* Sessions with small rosters *)

Hdr(s) == <<s>>

\* two identical rows, under headers with stray blanks
TblPair ==
    [readable |-> TRUE,
     columns |-> <<<<" ", "Category">>, <<"House", " ">>, <<"Name">>>>,
     rows |-> <<<<"Girls", "Red", "Ann">>, <<"Girls", "Red", "Ann">>>>]

TblMixed ==
    [readable |-> TRUE,
     columns |-> <<Hdr("Name"), Hdr("Category"), Hdr("House")>>,
     rows |-> <<<<"Ann", "Girls", "Red">>, <<"Cy", "Other", "Blue">>>>]

\* no House column
TblNoHouse ==
    [readable |-> TRUE,
     columns |-> <<Hdr("Category"), Hdr("Name")>>,
     rows |-> <<<<"Girls", "Ann">>>>]

\* a file pd.read_csv raises on
TblUnreadable == [readable |-> FALSE, columns |-> <<>>, rows |-> <<>>]

Tables == {TblPair, TblMixed, TblNoHouse, TblUnreadable}

AddCats == {"Girls"}

EditTexts == {<<>>, <<"5">>}

SlotNames == Range(Slots)

Next ==
    \/ \E tbl \in Tables \cup Downloaded : LoadData(tbl)
    \/ \E cat \in AddCats : Add(cat, "Red", "Ann")
    \/ \E c \in Range(CatOrder) : Select(c)
    \/ Generate
    \/ \E i \in 1..Len(discus_data), n \in EditNames : EditName(i, n)
    \/ \E i \in 1..Len(discus_data), f \in SlotNames, v \in EditTexts : EditThrow(i, f, v)
    \/ Download

Spec == Init /\ [][Next]_vars

---------------------------------------------------------------------------
(* Sessions with a category larger than the cut *)

TblSeven ==
    [readable |-> TRUE,
     columns |-> <<Hdr("Category"), Hdr("House"), Hdr("Name")>>,
     rows |-> <<<<"Girls", "Red", "Ann">>, <<"Girls", "Red", "Eve">>,
                <<"Girls", "Blue", "Dee">>, <<"Girls", "Blue", "Fay">>,
                <<"Girls", "Red", "Gia">>, <<"Girls", "Blue", "Ida">>,
                <<"Other", "Blue", "Cy">>>>]

CutTexts == {<<>>, <<"5">>}

\* the throw boxes edited in these sessions (t2 is handled like t1)
CutFields == {"t1", "t3", "t4", "t5"}

NextCut ==
    \/ LoadData(TblSeven)
    \/ \E c \in Range(CatOrder) : Select(c)
    \/ Generate
    \/ \E i \in 1..Len(discus_data), f \in CutFields, v \in CutTexts : EditThrow(i, f, v)
    \/ Download

SpecCut == Init /\ [][NextCut]_vars

---------------------------------------------------------------------------
(* What the properties are stated with *)

Members(dd, cat) == {i \in 1..Len(dd) : dd[i].Category = cat}

\* a comes before b on a stable descending leaderboard with keys key
AheadOf(key, a, b) ==
    \/ Gt(key[a], key[b])
    \/ /\ ~Gt(key[b], key[a])
       /\ a < b

CutOf(key, M) == {a \in M : Cardinality({b \in M : AheadOf(key, b, a)}) < 5}

\* the first min(5, n) entries of the leaderboard of category cat
CutMembers(dd, cat) == CutOf(best_keys(dd), Members(dd, cat))

CountDown(k) == [p \in 1..k |-> k + 1 - p]

\* a text that denotes a real number: blanks, an optional sign, a decimal numeral
IsRealNumeral(t) == t # None /\ IsNumber(Unsigned(strip(t)))

RealValue(t) ==
    IF Signed(strip(t)) THEN 0 - NumberVal(Unsigned(strip(t)))
    ELSE NumberVal(Unsigned(strip(t)))

IsNanText(t) == t # None /\ Unsigned(strip(t)) = <<"n", "a", "n">>

IsNegativeNumeral(t) == IsRealNumeral(t) /\ RealValue(t) < 0

NonNegative(x) == x.kind = "num" /\ x.v >= 0

\* the step is a successful Load Data
Loaded == notice' = "Loaded!"

\* the step is no load and changes the text of a t3, t4 or t5 slot
FinalSlotChanged ==
    /\ ~Loaded
    /\ \E i \in 1..Len(discus_data), f \in Phase2Fields :
          discus_data'[i][f] # discus_data[i][f]

FieldNames == {"id", "Category", "House", "Name", "t1", "t2", "t3", "t4", "t5"}

---------------------------------------------------------------------------
(* C1 *)

\* C1: whenever the final round of the shown category is active, the finalists on
\* the screen are exactly the first min(5, n) entries of the leaderboard of the
\* CURRENT throw texts, and never more than 5.
C1_CutFollowsCurrentTexts ==
    is_final_active =>
        /\ Len(final_order) <= 5
        /\ Range(final_order) = CutMembers(discus_data, selected_cat)

\* what the run does show: the first min(5, n) entries of the leaderboard of the
\* texts as line 160 sorted them, which are the texts after the step except in a
\* step that changed a t3, t4 or t5 text, where they are the texts before it
CutOfTheRenderedTexts ==
    [][is_final_active' =>
          /\ Len(final_order') = Min(5, Cardinality(Members(discus_data', selected_cat')))
          /\ Cardinality(Range(final_order')) = Len(final_order')
          /\ Range(final_order') =
                IF FinalSlotChanged THEN CutMembers(discus_data, selected_cat')
                ELSE CutMembers(discus_data', selected_cat')]_vars

---------------------------------------------------------------------------
(* C2 *)

---------------------------------------------------------------------------
(* C3 *)

IsStableDescending(dd, o) ==
    LET key == best_keys(dd)
    IN  \A p \in 1..Len(o), q \in 1..Len(o) : p < q => AheadOf(key, o[p], o[q])

\* C3: every leaderboard the program computes of the shown category (the Phase 2
\* ranking and the ranking of the results table) is sorted by best throw
\* descending with ties in roster order.
C3_LeaderboardStable ==
    discus_data # <<>> =>
        /\ IsStableDescending(discus_data, sorted_athletes(discus_data, selected_cat))
        /\ \A o \in df_res_orders(discus_data, selected_cat) :
              IsStableDescending(discus_data, o)

---------------------------------------------------------------------------
(* C4 *)

\* C4: parse_throw returns 0.0 for the empty string, an absent value, "-" and
\* every text that is not a real number, and the number for a numeric text.
C4_ParseThrow ==
    pc = "parsed" =>
        ret = IF IsRealNumeral(val) THEN Num(RealValue(val)) ELSE Zero

---------------------------------------------------------------------------
(* C5 *)

SlotOf(k) == athlete[Slots[k]]

---------------------------------------------------------------------------
(* C6 *)

\* C6: a category's finalized flag is set by generate, for the shown category
\* only, and once set it stays set in every step but a successful load.
C6_FlagSticky ==
    [][/\ ~Loaded => finalists_generated \subseteq finalists_generated'
       /\ (finalists_generated' \ finalists_generated) \subseteq {selected_cat}
       /\ Generate => selected_cat \in finalists_generated' /\ is_final_active']_vars

\* the flag of Girls is still set after a throw was typed and the other category
\* was selected
C6_Witness ==
    /\ "Girls" \in finalists_generated
    /\ selected_cat = "Other"
    /\ DirtyCount(discus_data) > 0

---------------------------------------------------------------------------
(* C7 *)

LacksColumn(tbl) ==
    \E c \in {"Category", "House", "Name"} :
        \A k \in 1..Len(tbl.columns) : strip(tbl.columns[k]) # <<c>>

AllSlotsEmpty(a) == \A k \in 1..Len(Slots) : a[Slots[k]] = <<>>

---------------------------------------------------------------------------
(* C8 *)

\* C8: loading an exported category as a fresh roster gives records with the
\* same Name, House and five throw texts, row by row.
C8_RoundTrip ==
    discus_data # <<>> =>
        \A o \in df_res_orders(discus_data, selected_cat) :
            LET back == LoadHandler(to_csv(discus_data, o), <<>>, {}).dd
            IN  /\ Len(back) = Len(o)
                /\ \A k \in 1..Len(back) :
                      /\ back[k].Name = discus_data[o[k]].Name
                      /\ back[k].House = discus_data[o[k]].House
                      /\ \A j \in 1..Len(Slots) :
                            back[k][Slots[j]] = discus_data[o[k]][Slots[j]]

---------------------------------------------------------------------------
(* C9 *)

\* C9: every record has the five throw slots t1..t5 (and the four other
\* fields), and in every step but a successful load each record keeps its place,
\* its identifier and its category; a name edit does not recompute the id.
C9_IdAndCategoryFixed ==
    [][/\ \A i \in 1..Len(discus_data') : DOMAIN discus_data'[i] = FieldNames
       /\ ~Loaded =>
             /\ Len(discus_data') >= Len(discus_data)
             /\ \A i \in 1..Len(discus_data) :
                   /\ discus_data'[i].id = discus_data[i].id
                   /\ discus_data'[i].Category = discus_data[i].Category]_vars

\* a record whose display name was typed over and whose identifier is the old one
C9_Witness ==
    \E i \in 1..Len(discus_data) :
        /\ discus_data[i].Name = "Bea"
        /\ discus_data[i].id = "Ann_Red"
        /\ Len(discus_data) > i

---------------------------------------------------------------------------
(* C10 *)

=============================================================================
